---- MODULE Spec2Model ----
(***************************************************************************)
(* Model of the two subprocess helpers of S0UN/active-recall:              *)
(*   - services/preprocessing/impl/spellcheck.py  (SpellChecker, main)     *)
(*   - services/analysis/python/huggingface_classifier.py (command loop)   *)
(* A Python str is a sequence of one-character strings.                    *)
(***************************************************************************)
EXTENDS Integers, Sequences, FiniteSets, TLC

VARIABLES
    \* ---- spellcheck.py ----
    pc,               \* position of spellcheck.main: start / constructed / raised / done
    text,             \* sys.stdin.read()
    file_exists,      \* os.path.exists(dictionary_path)
    file_words,       \* the (term, count) rows the dictionary file holds or would hold
    sym_spell,        \* self.sym_spell: [loaded |-> FALSE] is None
    tokens,           \* correct_text: tokens
    corrected_tokens, \* correct_text: corrected_tokens
    applied,          \* the calls of _apply_correction made: <<[word, out]>>
    n_lookups,        \* number of sym_spell.lookup calls made
    result,           \* the value correct_text returned
    \* ---- huggingface_classifier.py ----
    cpc,              \* position of classifier main: idle / init / loop / got / finally / exited
    stdin,            \* the lines of sys.stdin
    pos,              \* number of lines read so far
    line,             \* the stripped line being processed
    stdout,           \* the JSON objects printed, in order
    exit_code,        \* the process exit status (-1: still running)
    interrupted       \* a KeyboardInterrupt was raised in the loop

spell_vars == <<pc, text, file_exists, file_words, sym_spell, tokens,
                corrected_tokens, applied, n_lookups, result>>
cls_vars == <<cpc, stdin, pos, line, stdout, exit_code, interrupted>>
vars == <<pc, text, file_exists, file_words, sym_spell, tokens,
          corrected_tokens, applied, n_lookups, result,
          cpc, stdin, pos, line, stdout, exit_code, interrupted>>

-----------------------------------------------------------------------------
(* Characters and the str methods the code uses *)

LowerLetters == <<"a","b","c","d","e","f","g","h","i","j","k","l","m",
                  "n","o","p","q","r","s","t","u","v","w","x","y","z">>
UpperLetters == <<"A","B","C","D","E","F","G","H","I","J","K","L","M",
                  "N","O","P","Q","R","S","T","U","V","W","X","Y","Z">>
Digits == {"0","1","2","3","4","5","6","7","8","9"}
HexDigits == Digits \cup {"a","b","c","d","e","f","A","B","C","D","E","F"}
Whitespace == {" ", "\t", "\n"}

\* the argument of token.strip(...); the grave accent, which a TLA+ string
\* cannot hold, is written "grave"
StripChars == {".", ",", "!", "?", ";", ":", "\"", "'", "(", ")", "[", "]",
               "{", "}", "|", "<", ">", "/", "*", "-", "+", "=", "@", "#",
               "$", "%", "^", "&", "~", "grave"}

UpperSet == {UpperLetters[i] : i \in 1..26}
LowerSet == {LowerLetters[i] : i \in 1..26}
IsUpperChar(c) == c \in UpperSet
IsLowerChar(c) == c \in LowerSet
LowerChar(c) ==
    IF IsUpperChar(c) THEN LowerLetters[CHOOSE i \in 1..26 : UpperLetters[i] = c] ELSE c
UpperChar(c) ==
    IF IsLowerChar(c) THEN UpperLetters[CHOOSE i \in 1..26 : LowerLetters[i] = c] ELSE c

\* str.lower(), str.upper(), str.capitalize(), str.isupper(), str.isspace()
Lower(s) == [i \in 1..Len(s) |-> LowerChar(s[i])]
Upper(s) == [i \in 1..Len(s) |-> UpperChar(s[i])]
Capitalize(s) == [i \in 1..Len(s) |-> IF i = 1 THEN UpperChar(s[i]) ELSE LowerChar(s[i])]
IsUpperStr(s) ==
    /\ \E i \in 1..Len(s) : IsUpperChar(s[i])
    /\ \A i \in 1..Len(s) : ~IsLowerChar(s[i])
IsSpaceStr(s) == Len(s) > 0 /\ \A i \in 1..Len(s) : s[i] \in Whitespace
StartsWith(s, p) == Len(s) >= Len(p) /\ SubSeq(s, 1, Len(p)) = p
CharSet(s) == {s[i] : i \in 1..Len(s)}

RECURSIVE Join(_)
Join(ss) == IF ss = <<>> THEN <<>> ELSE Head(ss) \o Join(Tail(ss))

-----------------------------------------------------------------------------
(* SpellChecker._tokenize: re.findall over the pattern (non-space run | space run) *)

\* length of the greedy match of a space run (space = TRUE) or a non-space run
\* (space = FALSE) at i
RECURSIVE MatchRun(_, _, _)
MatchRun(s, i, space) ==
    IF i > Len(s) \/ ((s[i] \in Whitespace) # space) THEN 0
    ELSE 1 + MatchRun(s, i + 1, space)

\* findall from position i: the first alternative that matches at i wins; a
\* position where neither matches is skipped
RECURSIVE FindAll(_, _)
FindAll(s, i) ==
    IF i > Len(s) THEN <<>>
    ELSE LET n1 == MatchRun(s, i, FALSE)
             n2 == MatchRun(s, i, TRUE)
         IN IF n1 > 0 THEN <<SubSeq(s, i, i + n1 - 1)>> \o FindAll(s, i + n1)
            ELSE IF n2 > 0 THEN <<SubSeq(s, i, i + n2 - 1)>> \o FindAll(s, i + n2)
            ELSE FindAll(s, i + 1)

\* a tokenizer that keeps only the non-space runs
TokenizeDropSpace(s) == SelectSeq(FindAll(s, 1), LAMBDA t : ~IsSpaceStr(t))

Tokenize(s) == FindAll(s, 1)

-----------------------------------------------------------------------------
(* SpellChecker._extract_word *)

StripLeadLen(s) ==
    IF \A i \in 1..Len(s) : s[i] \in StripChars THEN Len(s)
    ELSE (CHOOSE i \in 1..Len(s) :
             s[i] \notin StripChars /\ \A j \in 1..(i - 1) : s[j] \in StripChars) - 1
StripTrailLen(s) ==
    IF \A i \in 1..Len(s) : s[i] \in StripChars THEN 0
    ELSE Len(s) - (CHOOSE i \in 1..Len(s) :
             s[i] \notin StripChars /\ \A j \in (i + 1)..Len(s) : s[j] \in StripChars)
\* str.strip(chars)
Strip(s) == SubSeq(s, StripLeadLen(s) + 1, Len(s) - StripTrailLen(s))

ExtractWord(token) ==
    LET word == Strip(token)
    IN [word |-> word, trailing |-> SubSeq(token, Len(word) + 1, Len(token))]

-----------------------------------------------------------------------------
(* SpellChecker._should_skip_correction and its predicates *)

HttpPrefix == <<"h","t","t","p",":","/","/">>
HttpsPrefix == <<"h","t","t","p","s",":","/","/">>
WwwPrefix == <<"w","w","w",".">>

IsUrl(word) ==
    StartsWith(word, HttpPrefix) \/ StartsWith(word, HttpsPrefix) \/ StartsWith(word, WwwPrefix)
IsFilePath(word) ==
    "/" \in CharSet(word) \/ "\\" \in CharSet(word) \/ StartsWith(word, <<".">>)
IsAcronym(word) ==
    \E i \in 1..(Len(word) - 1) : IsUpperChar(word[i]) /\ IsUpperChar(word[i + 1])
IsCamelCase(word) ==
    Len(word) > 1 /\ \E i \in 2..Len(word) : IsUpperChar(word[i])
HasUnderscores(word) == "_" \in CharSet(word)
IsCodePattern(word) ==
    \/ /\ Len(word) >= 2 /\ word[1] = "#"
       /\ \A i \in 2..Len(word) : word[i] \in HexDigits
    \/ /\ Len(word) >= 3 /\ word[1] = "0" /\ word[2] = "x"
       /\ \A i \in 3..Len(word) : word[i] \in HexDigits
    \/ /\ Len(word) >= 1
       /\ \A i \in 1..Len(word) : word[i] \in Digits

ShouldSkipCorrection(word) ==
    IF word = <<>> THEN TRUE
    ELSE \/ IsUrl(word)
         \/ IsFilePath(word)
         \/ IsAcronym(word)
         \/ IsCamelCase(word)
         \/ HasUnderscores(word)
         \/ IsCodePattern(word)

-----------------------------------------------------------------------------
(* The suggestion source: symspellpy's SymSpell.lookup over the loaded rows *)

MaxEditDistance == 2
HighFrequency == 1000
MinorTypoMinLen == 4

Min2(a, b) == IF a <= b THEN a ELSE b

\* Damerau optimal-string-alignment distance, one row of the table at a time:
\* prev2, prev and cur hold rows i-2, i-1 and i, column j at index j+1
RECURSIVE OsaRow(_, _, _, _, _, _)
OsaRow(a, b, i, prev2, prev, cur) ==
    LET j == Len(cur)
    IN IF j > Len(b) THEN cur
       ELSE LET cost == IF a[i] = b[j] THEN 0 ELSE 1
                base == Min2(Min2(prev[j + 1] + 1, cur[j] + 1), prev[j] + cost)
                cell == IF i > 1 /\ j > 1 /\ a[i] = b[j - 1] /\ a[i - 1] = b[j]
                        THEN Min2(base, prev2[j - 1] + 1)
                        ELSE base
            IN OsaRow(a, b, i, prev2, prev, Append(cur, cell))

RECURSIVE OsaRows(_, _, _, _, _)
OsaRows(a, b, i, prev2, prev) ==
    IF i > Len(a) THEN prev[Len(b) + 1]
    ELSE OsaRows(a, b, i + 1, prev, OsaRow(a, b, i, prev2, prev, <<i>>))

EditDistance(a, b) == OsaRows(a, b, 1, <<>>, [k \in 1..(Len(b) + 1) |-> k - 1])

\* suggestions of equal distance, the most frequent first
RECURSIVE SortByCount(_)
SortByCount(S) ==
    IF S = {} THEN <<>>
    ELSE LET top == CHOOSE x \in S : \A y \in S : y.count <= x.count
         IN <<top>> \o SortByCount(S \ {top})

\* lookup(phrase, Verbosity.TOP or CLOSEST, max_edit_distance): an exact match ends
\* the search; otherwise the terms at the smallest distance within the maximum
\* (a term whose length differs by more than the maximum is never measured)
Lookup(words, phrase, max_edit_distance) ==
    LET exact == {e \in words : e.term = phrase}
    IN IF exact # {}
       THEN <<[term |-> phrase, distance |-> 0, count |-> (CHOOSE e \in exact : TRUE).count]>>
       ELSE IF max_edit_distance = 0 THEN <<>>
       ELSE LET close == {e \in words : Len(e.term) - Len(phrase) <= max_edit_distance
                                          /\ Len(phrase) - Len(e.term) <= max_edit_distance}
                cands == {[term |-> e.term, distance |-> EditDistance(phrase, e.term),
                           count |-> e.count] : e \in close}
                near == {c \in cands : c.distance <= max_edit_distance}
                best == {c \in near : \A d \in near : c.distance <= d.distance}
            IN SortByCount(best)

-----------------------------------------------------------------------------
(* SpellChecker._apply_correction and its helpers *)

WordExistsInDictionary(words, word) ==
    LET lookup == Lookup(words, Lower(word), 0)
    IN lookup # <<>> /\ lookup[1].count > HighFrequency

GetSuggestions(words, word) == Lookup(words, Lower(word), MaxEditDistance)

IsMinorTypo(original, suggestion) ==
    IF suggestion.distance = 1 /\ Len(original) >= MinorTypoMinLen
    THEN CharSet(Lower(original)) # CharSet(suggestion.term)
    ELSE FALSE

PreserveCase(original, corrected) ==
    IF IsUpperStr(original) THEN Upper(corrected)
    ELSE IF IsUpperChar(original[1]) THEN Capitalize(corrected)
    ELSE corrected

ApplyCorrection(words, word) ==
    IF WordExistsInDictionary(words, word) THEN word
    ELSE LET suggestions == GetSuggestions(words, word)
         IN IF suggestions = <<>> THEN word
            ELSE IF IsMinorTypo(word, suggestions[1]) THEN word
            ELSE PreserveCase(word, suggestions[1].term)

\* the lookups one _apply_correction call makes
LookupCalls(words, word) == IF WordExistsInDictionary(words, word) THEN 1 ELSE 2

-----------------------------------------------------------------------------
(* SpellChecker._correct_token *)

\* one step of the list comprehension of correct_text: the token returned, the
\* _apply_correction call made for it (none for a token passed through) and the
\* lookups that call made
TokenOutcome(words, token) ==
    IF IsSpaceStr(token) THEN [token |-> token, calls |-> <<>>, lookups |-> 0]
    ELSE LET ew == ExtractWord(token)
         IN IF ShouldSkipCorrection(ew.word)
            THEN [token |-> token, calls |-> <<>>, lookups |-> 0]
            ELSE LET corrected_word == ApplyCorrection(words, ew.word)
                 IN [token |-> corrected_word \o ew.trailing,
                     calls |-> <<[word |-> ew.word, out |-> corrected_word]>>,
                     lookups |-> LookupCalls(words, ew.word)]

CorrectToken(words, token) == TokenOutcome(words, token).token

RECURSIVE Sum(_)
Sum(ns) == IF ns = <<>> THEN 0 ELSE Head(ns) + Sum(Tail(ns))

-----------------------------------------------------------------------------
(* SpellChecker.__init__, _create_spell_checker, _download_dictionary *)

None == [loaded |-> FALSE, words |-> {}]

\* a download whose failure escapes to the caller
DownloadDictionaryNoCatch(outcome) ==
    [exists |-> outcome # "fail", raised |-> outcome # "ok"]

\* urlretrieve inside try / except Exception: a failure is printed, never raised.
\* outcome: "ok" (the file is written), "fail" (nothing is written), "partial"
\* (the transfer breaks off and leaves a file holding some of the rows)
DownloadDictionary(outcome) ==
    [exists |-> outcome # "fail", raised |-> FALSE]

Construct ==
    /\ pc = "start"
    /\ \E outcome \in {"ok", "fail", "partial"} :
       \E rows \in (IF outcome = "partial" /\ ~file_exists THEN SUBSET file_words
                    ELSE {file_words}) :
         LET got == IF ~file_exists THEN DownloadDictionary(outcome)
                    ELSE [exists |-> TRUE, raised |-> FALSE]
         IN IF got.raised
            THEN /\ pc' = "raised"
                 /\ UNCHANGED <<file_exists, file_words, sym_spell>>
            ELSE /\ pc' = "constructed"
                 /\ file_exists' = got.exists
                 /\ file_words' = rows
                 /\ sym_spell' = IF got.exists
                                 THEN [loaded |-> TRUE, words |-> rows]
                                 ELSE None
    /\ UNCHANGED <<text, tokens, corrected_tokens, applied, n_lookups, result>>
    /\ UNCHANGED cls_vars

(* SpellChecker.correct_text, as spellcheck.main calls it *)
CorrectText ==
    /\ pc = "constructed"
    /\ pc' = "done"
    /\ IF ~sym_spell.loaded
       THEN /\ result' = text
            /\ UNCHANGED <<tokens, corrected_tokens, applied, n_lookups>>
       ELSE LET toks == Tokenize(text)
                outs == [i \in 1..Len(toks) |-> TokenOutcome(sym_spell.words, toks[i])]
                called == SelectSeq(outs, LAMBDA o : o.calls # <<>>)
            IN /\ tokens' = toks
               /\ corrected_tokens' = [i \in 1..Len(toks) |-> outs[i].token]
               /\ applied' = [i \in 1..Len(called) |-> called[i].calls[1]]
               /\ n_lookups' = Sum([i \in 1..Len(called) |-> called[i].lookups])
               /\ result' = Join(corrected_tokens')
    /\ UNCHANGED <<text, file_exists, file_words, sym_spell>>
    /\ UNCHANGED cls_vars

-----------------------------------------------------------------------------
(* Inputs of the spell checker *)

MaxTokens == 2
MaxLen == 4

row_hello == [term |-> <<"h","e","l","l","o">>, count |-> 5000]
row_the == [term |-> <<"t","h","e">>, count |-> 9000]
row_abab == [term |-> <<"a","b","a","b">>, count |-> 2000]
row_teh == [term |-> <<"t","e","h">>, count |-> 10]
DictRows == {row_hello, row_the, row_abab, row_teh}
Dictionaries == SUBSET DictRows

Words == {
    <<"h","e","l","l","l","o">>, <<"h","e","l","l","p">>, <<"h","e","l","l","o">>,
    <<"H","e","l","l","o">>, <<"H","e","l","l","p">>,
    <<"t","e","h">>, <<"T","e","h">>, <<"T","E","H">>, <<"t","h","e">>,
    <<"a","a","b","b">>, <<"q","q","q">>,
    <<"N","A","S","A">>, <<"g","e","t","I","d">>, <<"a","_","b">>,
    <<"4","2">>, <<"0","x","1","A">>, <<"#","F","F","0">>, <<"#","f","f","0">>,
    <<"h","t","t","p",":","/","/","a">>, <<"C",":","\\","p">>, <<".","r","c">> }
\* (leading, trailing) punctuation around a word
Wraps == { <<<<>>, <<>>>>, <<<<>>, <<",">>>>, <<<<"(">>, <<")">>>> }
Seps == { <<" ","\t">> }
Tokens == {p[1] \o w \o p[2] : p \in Wraps, w \in Words}

RECURSIVE TokenTexts(_)
TokenTexts(n) ==
    IF n = 0 THEN {<<>>}
    ELSE IF n = 1 THEN Tokens
    ELSE {a \o s \o b : a \in TokenTexts(n - 1), s \in Seps, b \in Tokens}
\* the texts of at most MaxTokens tokens
Texts(max) == UNION {TokenTexts(n) : n \in 0..max}

StringChars == {"a", "b", ",", " ", "\n"}
RECURSIVE StringsOf(_)
StringsOf(n) ==
    IF n = 0 THEN {<<>>}
    ELSE {Append(s, c) : s \in StringsOf(n - 1), c \in StringChars}
Strings == UNION {StringsOf(n) : n \in 0..MaxLen}

-----------------------------------------------------------------------------
(* huggingface_classifier.py: the lines of stdin and their parsing *)

MaxLines == 3

L_empty == ""
L_blank == "   "
L_badjson == "{oops"
L_list == "[1]"
L_notype == "{}"
L_bogus == "{\"type\": \"bogus\"}"
L_ping == "{\"type\": \"ping\"}"
L_ping_padded == "  {\"type\": \"ping\"}  "
L_classify == "{\"type\": \"classify\", \"text\": \"t\", \"labels\": [\"a\"]}"
L_shutdown == "{\"type\": \"shutdown\"}"
Lines == {L_empty, L_blank, L_badjson, L_list, L_notype, L_bogus, L_ping,
          L_ping_padded, L_classify, L_shutdown}

\* line.strip()
StripLine(l) ==
    IF l = L_blank THEN L_empty
    ELSE IF l = L_ping_padded THEN L_ping
    ELSE l

\* json.loads(line): JSONDecodeError, or the value (an object with its "type", or
\* a value that is no object)
JsonLoads(l) ==
    IF l = L_badjson THEN [ok |-> FALSE, isdict |-> FALSE, type |-> "none"]
    ELSE IF l = L_list THEN [ok |-> TRUE, isdict |-> FALSE, type |-> "none"]
    ELSE IF l = L_notype THEN [ok |-> TRUE, isdict |-> TRUE, type |-> "none"]
    ELSE IF l = L_bogus THEN [ok |-> TRUE, isdict |-> TRUE, type |-> "bogus"]
    ELSE IF l = L_ping THEN [ok |-> TRUE, isdict |-> TRUE, type |-> "ping"]
    ELSE IF l = L_classify THEN [ok |-> TRUE, isdict |-> TRUE, type |-> "classify"]
    ELSE IF l = L_shutdown THEN [ok |-> TRUE, isdict |-> TRUE, type |-> "shutdown"]
    ELSE [ok |-> FALSE, isdict |-> FALSE, type |-> "none"]

Msg(type, status) == [type |-> type, status |-> status]
M_initialized == Msg("initialized", "success")
M_init_error == Msg("error", "Failed to initialize model")
M_ack == Msg("shutdown", "acknowledged")
M_complete == Msg("shutdown", "complete")

\* HuggingFaceClassifier.classify: the pipeline's result, or its exception caught
Classify(pipe_ok) ==
    IF pipe_ok THEN Msg("classification", "labels") ELSE Msg("error", "Classification failed")

\* HuggingFaceClassifier.process_command on an object
ProcessCommand(command, pipe_ok) ==
    IF command.type = "classify" THEN Classify(pipe_ok)
    ELSE IF command.type = "ping" THEN Msg("pong", "ready")
    ELSE IF command.type = "shutdown" THEN M_ack
    ELSE Msg("error", "Unknown command type")

\* a loop that never breaks
BreakOnShutdownNever(res) == FALSE

\* main: if result.get("type") == "shutdown": break
BreakOnShutdown(res) == res.type = "shutdown"

\* a loop whose handlers end it
HandleLineErrorEnds(l, pipe_ok) ==
    LET parsed == JsonLoads(l)
    IN IF ~parsed.ok THEN [out |-> Msg("error", "Invalid JSON"), brk |-> TRUE]
       ELSE IF ~parsed.isdict THEN [out |-> Msg("error", "Processing error"), brk |-> TRUE]
       ELSE LET res == ProcessCommand(parsed, pipe_ok)
            IN [out |-> res, brk |-> res.type \in {"shutdown", "error"}]

\* main: the inner try of the loop on a stripped non-empty line: the one object
\* printed, and whether the loop breaks. command.get on a value that is no
\* object raises AttributeError, which except Exception answers
HandleLine(l, pipe_ok) ==
    LET parsed == JsonLoads(l)
    IN IF ~parsed.ok THEN [out |-> Msg("error", "Invalid JSON"), brk |-> FALSE]
       ELSE IF ~parsed.isdict THEN [out |-> Msg("error", "Processing error"), brk |-> FALSE]
       ELSE LET res == ProcessCommand(parsed, pipe_ok)
            IN [out |-> res, brk |-> BreakOnShutdown(res)]

(* HuggingFaceClassifier.__init__ / _initialize_pipeline, called by main before its try *)
InitializePipeline ==
    /\ cpc = "init"
    /\ \E ok \in BOOLEAN :
         IF ok
         THEN /\ stdout' = Append(stdout, M_initialized)
              /\ cpc' = "loop"
              /\ UNCHANGED exit_code
         ELSE /\ stdout' = Append(stdout, M_init_error)
              /\ cpc' = "exited"
              /\ exit_code' = 1
    /\ UNCHANGED <<stdin, pos, line, interrupted>>
    /\ UNCHANGED spell_vars

(* main: for line in sys.stdin; line = line.strip(); if not line: continue *)
ReadLine ==
    /\ cpc = "loop"
    /\ pos < Len(stdin)
    /\ pos' = pos + 1
    /\ line' = StripLine(stdin[pos + 1])
    /\ cpc' = IF line' = L_empty THEN "loop" ELSE "got"
    /\ UNCHANGED <<stdin, stdout, exit_code, interrupted>>
    /\ UNCHANGED spell_vars

(* main: the for loop ends at end of input *)
EndOfInput ==
    /\ cpc = "loop"
    /\ pos = Len(stdin)
    /\ cpc' = "finally"
    /\ UNCHANGED <<stdin, pos, line, stdout, exit_code, interrupted>>
    /\ UNCHANGED spell_vars

(* main: the inner try / except of one iteration *)
ProcessLine ==
    /\ cpc = "got"
    /\ \E pipe_ok \in BOOLEAN :
         LET h == HandleLine(line, pipe_ok)
         IN /\ stdout' = Append(stdout, h.out)
            /\ cpc' = IF h.brk THEN "finally" ELSE "loop"
    /\ UNCHANGED <<stdin, pos, line, exit_code, interrupted>>
    /\ UNCHANGED spell_vars

(* main: except KeyboardInterrupt: pass *)
Interrupt ==
    /\ cpc \in {"loop", "got"}
    /\ interrupted' = TRUE
    /\ cpc' = "finally"
    /\ UNCHANGED <<stdin, pos, line, stdout, exit_code>>
    /\ UNCHANGED spell_vars

\* a finally block that prints nothing
FinallyOutputNone(out) == out

\* main: finally: print the completion object
FinallyOutput(out) == Append(out, M_complete)

Finally ==
    /\ cpc = "finally"
    /\ stdout' = FinallyOutput(stdout)
    /\ cpc' = "exited"
    /\ exit_code' = 0
    /\ UNCHANGED <<stdin, pos, line, interrupted>>
    /\ UNCHANGED spell_vars

RECURSIVE SeqsOf(_, _)
SeqsOf(S, n) ==
    IF n = 0 THEN {<<>>}
    ELSE {Append(q, x) : q \in SeqsOf(S, n - 1), x \in S}
Inputs == UNION {SeqsOf(Lines, n) : n \in 0..MaxLines}

SpellIdle ==
    /\ pc = "idle"
    /\ text = <<>>
    /\ file_exists = FALSE
    /\ file_words = {}
    /\ sym_spell = None
    /\ tokens = <<>>
    /\ corrected_tokens = <<>>
    /\ applied = <<>>
    /\ n_lookups = 0
    /\ result = <<>>

InitClassifier ==
    /\ cpc = "init"
    /\ stdin \in Inputs
    /\ pos = 0
    /\ line = ""
    /\ stdout = <<>>
    /\ exit_code = -1
    /\ interrupted = FALSE
    /\ SpellIdle

NextClassifier ==
    \/ InitializePipeline
    \/ ReadLine
    \/ EndOfInput
    \/ ProcessLine
    \/ Interrupt
    \/ Finally

SpecClassifier == InitClassifier /\ [][NextClassifier]_vars
\* the interpreter keeps running the process until it exits
SpecClassifierLive == SpecClassifier /\ WF_vars(NextClassifier)

ClsIdle ==
    /\ cpc = "idle"
    /\ stdin = <<>>
    /\ pos = 0
    /\ line = ""
    /\ stdout = <<>>
    /\ exit_code = -1
    /\ interrupted = FALSE

InitSpell(inputs) ==
    /\ pc = "start"
    /\ text \in inputs
    /\ file_exists \in BOOLEAN
    /\ file_words \in Dictionaries
    /\ sym_spell = None
    /\ tokens = <<>>
    /\ corrected_tokens = <<>>
    /\ applied = <<>>
    /\ n_lookups = 0
    /\ result = <<>>
    /\ ClsIdle

Init == InitSpell(Texts(MaxTokens))
InitStrings == InitSpell(Strings)

Next ==
    \/ Construct
    \/ CorrectText

Spec == Init /\ [][Next]_vars
SpecStrings == InitStrings /\ [][Next]_vars

-----------------------------------------------------------------------------
(* Properties of the spell checker *)

Done == pc = "done" /\ sym_spell.loaded
LeadRun(t) == SubSeq(t, 1, StripLeadLen(t))
TrailRun(t) == SubSeq(t, Len(t) - StripTrailLen(t) + 1, Len(t))
IsWord(t) == ~IsSpaceStr(t) /\ ~ShouldSkipCorrection(Strip(t))

\* C1: a non-whitespace token L + w + T, with L and T runs of strip characters and
\* w a word that is not skipped and that the correction engine replaces by c,
\* comes out of correct_text as exactly L + c + T.
C1_PunctuationPreserved ==
    Done =>
      \A i \in 1..Len(tokens) :
        LET t == tokens[i]
            c == ApplyCorrection(sym_spell.words, Strip(t))
        IN (IsWord(t) /\ c # Strip(t)) =>
             corrected_tokens[i] = LeadRun(t) \o c \o TrailRun(t)

\* the guard as the specification words it: distance 1, length >= 4, equal sets
GuardOfSpec(original, suggestion) ==
    /\ suggestion.distance = 1
    /\ Len(original) >= 4
    /\ CharSet(Lower(original)) = CharSet(suggestion.term)

\* C2: for a word that is no high-frequency exact match and has a suggestion,
\* _apply_correction returns the word unchanged when the top suggestion is at
\* distance 1, the word has length >= 4 and both have the same set of distinct
\* characters, and the case-adjusted top suggestion in every other case.
C2_MinorTypoGuard ==
    Done =>
      \A k \in 1..Len(applied) :
        LET w == applied[k].word
            suggestions == GetSuggestions(sym_spell.words, w)
        IN (~WordExistsInDictionary(sym_spell.words, w) /\ suggestions # <<>>) =>
             applied[k].out = IF GuardOfSpec(w, suggestions[1]) THEN w
                              ELSE PreserveCase(w, suggestions[1].term)

AllUpper(w) == \A i \in 1..Len(w) : IsUpperChar(w[i])
OnlyFirstUpper(w) == IsUpperChar(w[1]) /\ \A i \in 2..Len(w) : ~IsUpperChar(w[i])
InCaseOf(w, term) ==
    IF AllUpper(w) THEN Upper(term)
    ELSE IF OnlyFirstUpper(w) THEN <<UpperChar(term[1])>> \o Tail(term)
    ELSE term

\* C3: a misspelled word of letters standing alone as a token, whose top suggestion
\* the minor-typo guard does not block, comes out of correct_text as the suggestion in
\* the case pattern of the original: upper-cased for an all-uppercase original,
\* first character upper-cased for a capitalised one, as returned otherwise.
C3_CasePreserved ==
    Done =>
      \A i \in 1..Len(tokens) :
        LET w == tokens[i]
            suggestions == GetSuggestions(sym_spell.words, w)
        IN (/\ \A k \in 1..Len(w) : IsUpperChar(w[k]) \/ IsLowerChar(w[k])
            /\ ~WordExistsInDictionary(sym_spell.words, w)
            /\ suggestions # <<>>
            /\ ~GuardOfSpec(w, suggestions[1])) =>
             corrected_tokens[i] = InCaseOf(w, suggestions[1].term)

\* the protected kinds of token
Protected(t) ==
    \/ IsUrl(t)
    \/ IsFilePath(t)
    \/ IsAcronym(Strip(t))
    \/ IsCamelCase(Strip(t))
    \/ HasUnderscores(t)
    \/ IsCodePattern(t)

\* C4: whatever the dictionary holds, correct_text returns every token of a
\* protected kind (URL, path, acronym, camel case, underscore, hex colour, hex
\* literal, decimal number) unchanged.
C4_SkipListUnchanged ==
    Done =>
      \A i \in 1..Len(tokens) :
        Protected(tokens[i]) => corrected_tokens[i] = tokens[i]

CleanToken(t) ==
    IsSpaceStr(t) \/ (Strip(t) # <<>> /\ WordExistsInDictionary(sym_spell.words, Strip(t)))

\* C5: a text whose every non-whitespace token is a high-frequency dictionary word,
\* possibly wrapped in leading and trailing punctuation, is returned unchanged.
C5_CleanTextFixedPoint ==
    (Done /\ \A i \in 1..Len(tokens) : CleanToken(tokens[i])) => result = text

OneKind(t) ==
    t # <<>> /\ (IsSpaceStr(t) \/ \A k \in 1..Len(t) : t[k] \notin Whitespace)
Lossless(s, toks) ==
    /\ \A i \in 1..Len(toks) : OneKind(toks[i])
    /\ \A i \in 1..(Len(toks) - 1) : IsSpaceStr(toks[i]) # IsSpaceStr(toks[i + 1])
    /\ Join(toks) = s
    /\ (s = <<>> => toks = <<>>)

\* C6: for every input string, _tokenize returns tokens that are each all
\* whitespace or all non-whitespace, that alternate in kind, and whose
\* concatenation is the input; the empty string gives no token.
C6_TokenizerLossless ==
    /\ Lossless(text, Tokenize(text))
    /\ Done => Lossless(text, tokens)

C6_Witness ==
    /\ Done
    /\ Len(tokens) = 3
    /\ IsSpaceStr(tokens[2]) /\ Len(tokens[2]) = 2

\* C7: with the dictionary file absent and the download failed, constructing the
\* SpellChecker does not raise, no dictionary is loaded, and correct_text returns
\* its input unchanged without tokenising or looking anything up.
C7_DegradesToIdentity ==
    /\ pc # "raised"
    /\ (pc \in {"constructed", "done"} /\ ~file_exists) => ~sym_spell.loaded
    /\ (pc = "done" /\ ~sym_spell.loaded) =>
         /\ result = text
         /\ tokens = <<>> /\ corrected_tokens = <<>>
         /\ applied = <<>> /\ n_lookups = 0

C7_Witness ==
    /\ pc = "done" /\ ~file_exists /\ ~sym_spell.loaded
    /\ text = <<"a", "b", "b", ",">>
    /\ row_abab \in file_words
    /\ result = text

-----------------------------------------------------------------------------
(* Properties of the classifier *)

InitOk == stdout # <<>> /\ stdout[1] = M_initialized
LinesRead == SubSeq(stdin, 1, pos)
\* what the loop printed: stdout without the first object and the completion object
Responses == SelectSeq(Tail(stdout), LAMBDA m : m # M_complete)
Settled == InitOk /\ ~interrupted /\ cpc \in {"loop", "finally", "exited"}

ExpectedTypes(l) ==
    LET parsed == JsonLoads(StripLine(l))
    IN IF ~parsed.ok \/ ~parsed.isdict THEN {"error"}
       ELSE IF parsed.type = "ping" THEN {"pong"}
       ELSE IF parsed.type = "shutdown" THEN {"shutdown"}
       ELSE IF parsed.type = "classify" THEN {"classification", "error"}
       ELSE {"error"}
IsShutdownLine(l) ==
    LET parsed == JsonLoads(StripLine(l))
    IN parsed.ok /\ parsed.isdict /\ parsed.type = "shutdown"
AnsweredInOrder(ls, rs) ==
    /\ Len(rs) = Len(ls)
    /\ \A k \in 1..Len(ls) : rs[k].type \in ExpectedTypes(ls[k])

\* C8 as stated: every line read is answered by exactly one object, in input
\* order, a line that is no valid command by an object of type "error".
C8_EveryLineAnswered ==
    Settled => AnsweredInOrder(LinesRead, Responses)

NonBlank(l) == StripLine(l) # L_empty

\* C8: every line read that is not empty after stripping is answered by exactly one
\* object, in input order, a line that is no valid JSON, no object or no known
\* command by an object of type "error"; a line that strips to nothing is read and
\* gets no answer; and answering a line that is no shutdown command leaves the loop
\* running.
C8_NonBlankLinesAnswered ==
    /\ [](Settled => AnsweredInOrder(SelectSeq(LinesRead, NonBlank), Responses))
    /\ [][(cpc = "got" /\ ~IsShutdownLine(line) /\ ~interrupted') => cpc' = "loop"]_vars

C8_Witness ==
    /\ stdin = <<L_badjson, L_blank, L_ping>>
    /\ pos = 3 /\ cpc = "loop" /\ ~interrupted
    /\ stdout = <<M_initialized, Msg("error", "Invalid JSON"), Msg("pong", "ready")>>

\* the shutdown command has been read and answered
ShutdownDone ==
    /\ ~interrupted /\ pos >= 1 /\ IsShutdownLine(stdin[pos])
    /\ cpc \in {"finally", "exited"}

\* C9: once a shutdown command is processed the acknowledgement is the last object
\* the loop prints, the loop has ended, no later line is read or answered, and the
\* process exits; while input remains, only a shutdown command (or an interrupt)
\* ends the loop.
C9_ShutdownEndsLoop ==
    /\ []((InitOk /\ ~interrupted /\ cpc # "got" /\ pos >= 1 /\ IsShutdownLine(stdin[pos]))
            => (ShutdownDone /\ Responses # <<>> /\ Responses[Len(Responses)] = M_ack))
    /\ [][ShutdownDone => (pos' = pos /\ Responses' = Responses)]_vars
    /\ [][(cpc \in {"loop", "got"} /\ cpc' = "finally" /\ ~interrupted' /\ pos < Len(stdin))
            => (cpc = "got" /\ IsShutdownLine(line))]_vars
    /\ (ShutdownDone ~> (cpc = "exited"))

C9_Witness ==
    /\ ShutdownDone /\ cpc = "exited"
    /\ pos = 1 /\ Len(stdin) = 3
    /\ stdout = <<M_initialized, M_ack, M_complete>>

Count(out, m) == Len(SelectSeq(out, LAMBDA x : x = m))
InitFailed == stdout # <<>> /\ stdout[1] = M_init_error

\* C10: after a successful initialisation the process ends, however the loop ended,
\* with the completion object written exactly once and last, so that a shutdown
\* command yields the acknowledgement followed by the completion object; it is not
\* written before; after a failed initialisation the process has written the one
\* error object, read no line and exited with a non-zero status.
C10_TerminalLine ==
    /\ (cpc = "exited" /\ InitOk) =>
         /\ stdout[Len(stdout)] = M_complete
         /\ Count(stdout, M_complete) = 1
         /\ ShutdownDone =>
              /\ stdout[Len(stdout) - 1] = M_ack
              /\ Len(SelectSeq(stdout, LAMBDA x : x.type = "shutdown")) = 2
    /\ cpc # "exited" => Count(stdout, M_complete) = 0
    /\ InitFailed =>
         /\ cpc = "exited" /\ stdout = <<M_init_error>>
         /\ exit_code # 0 /\ pos = 0
    /\ (cpc = "exited") = (exit_code # -1)

C10_Witness ==
    /\ cpc = "exited" /\ ShutdownDone
    /\ pos = 2 /\ Len(stdin) = 3
    /\ stdout = <<M_initialized, Msg("pong", "ready"), M_ack, M_complete>>

====
